---- MODULE Spec2Model ----
(***************************************************************************)
(* Model of the weather-aware crop advisor (src/app.py): the forecast      *)
(* normalizer filter_data and the severe-weather classifier inside         *)
(* check_weather_forecast.                                                 *)
(*                                                                         *)
(* Conventions.                                                            *)
(*  - A Python str is a sequence of one-character strings, so that         *)
(*    slicing is computed and not assumed.                                 *)
(*  - A Python dict is a function; a key the dict lacks is a key outside   *)
(*    its DOMAIN.                                                          *)
(*  - Numbers are in thousandths (1.6 mm = 1600, 273.15 K = 273150).       *)
(*    Every reading drawn below has at most three decimals; for these      *)
(*    values the float comparisons of the source agree with the exact      *)
(*    ones (308.15 - 273.15 is 35.0, 273.15 - 273.15 is 0.0,               *)
(*    308.149 - 273.15 is 34.999000000000024, 273.151 - 273.15 is          *)
(*    0.0010000000000331966).                                              *)
(*  - A Python call either returns a value or raises: [exc, value].        *)
(***************************************************************************)
EXTENDS Integers, Sequences, FiniteSets, TLC

VARIABLES
    response,     \* what requests.get / response.json() gave for the forecast
    filtered,     \* outcome of filter_data(data)
    refiltered,   \* outcome of filter_data({"list": filter_data(data)})
    result,       \* outcome of check_weather_forecast(city, api_key)
    pc,           \* position of the run
    \* st.session_state, src/app.py 266-274
    conversation,       \* "None" or the ConversationChain
    chat_history,       \* list of (speaker, message)
    initial_reco_done,
    weather_data,
    current_city,
    current_crop,
    model_calls,        \* how many times call_conversation was entered
    run                 \* the last run of main(): its inputs and how it ended

session_vars ==
    <<conversation, chat_history, initial_reco_done, weather_data,
      current_city, current_crop, model_calls, run>>

vars == <<response, filtered, refiltered, result, pc, session_vars>>

-----------------------------------------------------------------------------
(* Bounds of the model *)

\* longest forecast list whose entries vary in the shape of dt_txt
MaxLen == 3
\* longest forecast list whose entries vary in their readings
MaxDays == 2
\* most calls of the language model in one session
MaxCalls == 3

-----------------------------------------------------------------------------
(* Program constants, in thousandths *)

rain_threshold == 1600
wind_threshold == 20000
high_temp == 35000
low_temp == 0
KELVIN_OFFSET == 273150
\* number of characters entry["dt_txt"][:-9] drops
TIME_SUFFIX_LEN == 9
HTTP_OK == 200

-----------------------------------------------------------------------------
(* Python values *)

Return(v) == [exc |-> "none", value |-> v]
Raise(e) == [exc |-> e, value |-> <<>>]
NotCalled == [exc |-> "not called", value |-> <<>>]

\* d.get(k, default)
Get(d, k, default) == IF k \in DOMAIN d THEN d[k] ELSE default

\* s[:n] for n >= 0
Prefix(s, n) == IF Len(s) <= n THEN s ELSE SubSeq(s, 1, n)

\* s[:-n] for n > 0: everything but the last n characters; empty when the
\* string has n characters or fewer
DropLast(s, n) == IF Len(s) <= n THEN <<>> ELSE SubSeq(s, 1, Len(s) - n)

-----------------------------------------------------------------------------
(* filter_data, src/app.py 78-86 *)

\* variant: the slice keeps the hour, entry["dt_txt"][:-6]
DateOf_keeps_hour(dt_txt) == DropLast(dt_txt, 6)

\* date = entry["dt_txt"][:-9]
DateOf(dt_txt) == DropLast(dt_txt, TIME_SUFFIX_LEN)

\* variant: filtered_data.insert(0, entry) in place of append
RECURSIVE filter_loop_insert_front(_, _, _)
filter_loop_insert_front(rest, unique_dates, filtered_data) ==
    IF rest = <<>> THEN Return(filtered_data)
    ELSE LET entry == Head(rest) IN
         IF "dt_txt" \notin DOMAIN entry THEN Raise("KeyError")
         ELSE LET date == DropLast(entry.dt_txt, TIME_SUFFIX_LEN) IN
              IF date \notin unique_dates
              THEN filter_loop_insert_front(Tail(rest), unique_dates \cup {date},
                                            <<entry>> \o filtered_data)
              ELSE filter_loop_insert_front(Tail(rest), unique_dates, filtered_data)

\* variant: unique_dates.add(date) is missing
RECURSIVE filter_loop_no_add(_, _, _)
filter_loop_no_add(rest, unique_dates, filtered_data) ==
    IF rest = <<>> THEN Return(filtered_data)
    ELSE LET entry == Head(rest) IN
         IF "dt_txt" \notin DOMAIN entry THEN Raise("KeyError")
         ELSE LET date == DropLast(entry.dt_txt, TIME_SUFFIX_LEN) IN
              IF date \notin unique_dates
              THEN filter_loop_no_add(Tail(rest), unique_dates,
                                      Append(filtered_data, entry))
              ELSE filter_loop_no_add(Tail(rest), unique_dates, filtered_data)

RECURSIVE filter_loop(_, _, _)
filter_loop(rest, unique_dates, filtered_data) ==
    IF rest = <<>> THEN Return(filtered_data)
    ELSE LET entry == Head(rest) IN
         IF "dt_txt" \notin DOMAIN entry THEN Raise("KeyError")
         ELSE LET date == DateOf(entry.dt_txt) IN
              IF date \notin unique_dates
              THEN filter_loop(Tail(rest), unique_dates \cup {date},
                               Append(filtered_data, entry))
              ELSE filter_loop(Tail(rest), unique_dates, filtered_data)

filter_data(data) == filter_loop(data.list, {}, <<>>)

-----------------------------------------------------------------------------
(* check_weather_forecast, src/app.py 89-127 *)

NoneList == [is_none |-> TRUE, val |-> <<>>]
SomeList(l) == [is_none |-> FALSE, val |-> l]
NoneStr == [is_none |-> TRUE, val |-> ""]
SomeStr(m) == [is_none |-> FALSE, val |-> m]

\* the pair a return statement of check_weather_forecast builds
Pair(w, e) == [worst_days |-> w, error |-> e]

\* variant: falls back to the one-hour value of the rain object
RainOf_falls_back_1h(day) ==
    IF "rain" \in DOMAIN day
    THEN Get(day.rain, "3h", Get(day.rain, "1h", 0))
    ELSE 0

\* rain = day.get("rain", {}).get("3h", 0)
RainOf(day) == IF "rain" \in DOMAIN day THEN Get(day.rain, "3h", 0) ELSE 0

\* temp_c = day["main"]["temp"] - 273.15
TempC(day) == day.main.temp - KELVIN_OFFSET

\* variant: strict comparisons
IsWorstDay_strict(rain, wind, temp_c) ==
    \/ rain > rain_threshold
    \/ wind > wind_threshold
    \/ temp_c > high_temp
    \/ temp_c < low_temp

\* variant: the conditions joined by "and"
IsWorstDay_all(rain, wind, temp_c) ==
    /\ rain >= rain_threshold
    /\ wind >= wind_threshold
    /\ (temp_c >= high_temp \/ temp_c <= low_temp)

\* the condition of the if statement, lines 119-124
IsWorstDay(rain, wind, temp_c) ==
    \/ rain >= rain_threshold
    \/ wind >= wind_threshold
    \/ temp_c >= high_temp
    \/ temp_c <= low_temp

\* variant: worst_days.insert(0, date) in place of append
RECURSIVE classify_loop_insert_front(_, _)
classify_loop_insert_front(rest, worst_days) ==
    IF rest = <<>> THEN Return([worst_days |-> [is_none |-> FALSE, val |-> worst_days],
                                error |-> [is_none |-> TRUE, val |-> ""]])
    ELSE LET day == Head(rest) IN
         IF \/ "wind" \notin DOMAIN day
            \/ "main" \notin DOMAIN day
         THEN Raise("KeyError")
         ELSE IF \/ (IF "rain" \in DOMAIN day THEN Get(day.rain, "3h", 0) ELSE 0)
                        >= rain_threshold
                 \/ day.wind.speed >= wind_threshold
                 \/ day.main.temp - KELVIN_OFFSET >= high_temp
                 \/ day.main.temp - KELVIN_OFFSET <= low_temp
              THEN classify_loop_insert_front(Tail(rest), <<day.dt_txt>> \o worst_days)
              ELSE classify_loop_insert_front(Tail(rest), worst_days)

RECURSIVE classify_loop(_, _)
classify_loop(rest, worst_days) ==
    IF rest = <<>> THEN Return(Pair(SomeList(worst_days), NoneStr))
    ELSE LET day == Head(rest) IN
         IF \/ "wind" \notin DOMAIN day
            \/ "main" \notin DOMAIN day
         THEN Raise("KeyError")
         ELSE LET date == day.dt_txt
                  rain == RainOf(day)
                  wind == day.wind.speed
                  temp_c == TempC(day)
              IN  IF IsWorstDay(rain, wind, temp_c)
                  THEN classify_loop(Tail(rest), Append(worst_days, date))
                  ELSE classify_loop(Tail(rest), worst_days)

\* resp is the outcome of requests.get(url, timeout=15) and response.json():
\* kind "RequestException" (no reply), "ValueError" (the body is not JSON)
\* or "json" (a status code and a parsed document)
check_weather_forecast(resp) ==
    IF resp.kind = "RequestException"
    THEN Return(Pair(NoneList,
                     SomeStr("Weather service is unreachable. Please try again.")))
    ELSE IF resp.kind = "ValueError"
    THEN Return(Pair(NoneList,
                     SomeStr("Weather service returned an invalid response.")))
    ELSE IF resp.status_code # HTTP_OK
    THEN Return(Pair(NoneList,
                     SomeStr(Get(resp.data, "message",
                                 "Unable to fetch weather forecast."))))
    ELSE IF "list" \notin DOMAIN resp.data
    THEN Return(Pair(NoneList, SomeStr("Unexpected forecast data format.")))
    ELSE LET filtered_data == filter_data(resp.data) IN
         IF filtered_data.exc # "none" THEN Raise(filtered_data.exc)
         ELSE classify_loop(filtered_data.value, <<>>)

-----------------------------------------------------------------------------
(* Inputs: the forecast documents the weather service may return *)

DAY1 == <<"2","0","2","4","-","0","6","-","0","1">>
DAY2 == <<"2","0","2","4","-","0","6","-","0","2">>
T0000 == <<" ","0","0",":","0","0",":","0","0">>
T0300 == <<" ","0","3",":","0","0",":","0","0">>
HHMM == <<" ","0","0",":","0","0">>
ISOZ == <<"T","0","0",":","0","0",":","0","0","Z">>

\* "YYYY-MM-DD HH:MM:SS", the format of the feed
FeedStamps == {DAY1 \o T0000, DAY1 \o T0300, DAY2 \o T0000}
\* other shapes: "YYYY-MM-DD HH:MM", "YYYY-MM-DDTHH:MM:SSZ", "YYYY-MM"
OtherStamps == {DAY1 \o HHMM, DAY2 \o HHMM, DAY1 \o ISOZ,
                <<"2","0","2","4","-","0","6">>}

\* readings: the "rain", "wind" and "main" keys of an entry
Dry(wind, temp) == [wind |-> [speed |-> wind], main |-> [temp |-> temp]]
Wet(rain, wind, temp) ==
    [rain |-> ("3h" :> rain), wind |-> [speed |-> wind], main |-> [temp |-> temp]]
\* a rain object that carries only the one-hour value
Wet1h(rain, wind, temp) ==
    [rain |-> ("1h" :> rain), wind |-> [speed |-> wind], main |-> [temp |-> temp]]

Benign == Dry(5000, 293150)
Readings ==
    { Benign,
      Wet(1600, 0, 293150), Wet(1599, 0, 293150), Wet1h(2000, 5000, 293150),
      Dry(20000, 293150), Dry(19999, 293150),
      Dry(5000, 308150), Dry(5000, 308149),
      Dry(5000, 273150), Dry(5000, 273151),
      Dry(5000, 309150), Dry(25000, 300150) }

Entry(dt_txt, reading) == ("dt_txt" :> dt_txt) @@ reading

\* entries that vary in the shape of dt_txt (the last ones have no dt_txt)
StampEntries ==
    {Entry(t, r) : t \in FeedStamps \cup OtherStamps, r \in {Benign, Dry(25000, 300150)}}
        \cup {Benign}
\* entries of the feed's format that vary in their readings
ReadingEntries == {Entry(t, r) : t \in FeedStamps, r \in Readings}

SeqsUpTo(S, n) == UNION {[1..k -> S] : k \in 0..n}

\* the input of the end-to-end scenario
Scenario ==
    << Entry(DAY1 \o T0000, Dry(5000, 308150)),
       Entry(DAY1 \o T0300, Dry(5000, 309150)),
       Entry(DAY2 \o T0000, Dry(25000, 300150)) >>

ForecastLists ==
    SeqsUpTo(StampEntries, MaxLen) \cup SeqsUpTo(ReadingEntries, MaxDays)
        \cup {Scenario}

OkResponse(l) == [kind |-> "json", status_code |-> HTTP_OK, data |-> [list |-> l]]

Responses ==
    {OkResponse(l) : l \in ForecastLists}
        \cup { [kind |-> "RequestException", status_code |-> 0, data |-> [cod |-> "0"]],
               [kind |-> "ValueError", status_code |-> 200, data |-> [cod |-> "0"]],
               [kind |-> "json", status_code |-> 404,
                data |-> [cod |-> "404", message |-> "city not found"]],
               [kind |-> "json", status_code |-> 500, data |-> [cod |-> "500"]],
               [kind |-> "json", status_code |-> 200, data |-> [cod |-> "200"]] }

HasList(resp) == resp.kind = "json" /\ "list" \in DOMAIN resp.data

-----------------------------------------------------------------------------
(* st.session_state and the calls of the language model *)

NoWeather == [is_none |-> TRUE, condition |-> "", temp_c |-> 0, temp_f |-> 0,
              forecast_avg_temp |-> [available |-> FALSE, val |-> 0]]

\* no request was made
NoResponse == [kind |-> "none", status_code |-> 0, data |-> [cod |-> "0"]]

NoRun == [handler |-> "none", exit |-> "none", exc |-> "none", shown |-> "",
          get_reco |-> FALSE, weather_api_key |-> "", crop |-> "", city |-> "",
          current |-> NoResponse, follow_up |-> ""]

\* the first run of main(): "conversation" is not in st.session_state yet;
\* conv is what init_groq_conversation(groq_api_key) returned
SessionStart(conv) ==
    /\ conversation = conv
    /\ chat_history = <<>>
    /\ initial_reco_done = FALSE
    /\ weather_data = NoWeather
    /\ current_city = NoneStr
    /\ current_crop = NoneStr
    /\ model_calls = 0
    /\ run = NoRun

\* "None" when the Groq API key is missing, else the ConversationChain
init_groq_conversation(groq_api_key) ==
    IF groq_api_key = "" THEN "None" ELSE "chain"

\* what the model answers to a query
Reply(query) == <<"reply to">> \o query

\* llm names the first of the three attempts that the chain lets succeed:
\* "invoke" (invoke(query)), "invoke_dict" (invoke({"input": query})),
\* "run" (run(query)) or "fails" (all three raise). On None every attempt
\* raises AttributeError, and the last one is not caught.
call_conversation(conversation_obj, query, llm) ==
    IF conversation_obj = "None" THEN Raise("AttributeError")
    ELSE IF llm \in {"invoke", "invoke_dict"}
    THEN Return([is_dict |-> TRUE, response |-> Reply(query)])
    ELSE IF llm = "run"
    THEN Return([is_dict |-> FALSE, response |-> Reply(query)])
    ELSE Raise("APIError")

\* reply = response["response"] if isinstance(response, dict) else response
ReplyText(r) == r.response

LlmBehaviours == {"invoke", "invoke_dict", "run", "fails"}

\* round() of a non-negative number in thousandths; no value drawn lies
\* halfway between two integers
Round(x) == (x + 500) \div 1000

-----------------------------------------------------------------------------
(* The runs *)

Init ==
    /\ response \in Responses
    /\ filtered = NotCalled
    /\ refiltered = NotCalled
    /\ result = NotCalled
    /\ pc = "start"
    /\ SessionStart("chain")

\* filter_data(data) on the document of the response
FilterData ==
    /\ pc = "start"
    /\ HasList(response)
    /\ filtered' = filter_data(response.data)
    /\ pc' = "filtered"
    /\ UNCHANGED <<response, refiltered, result, session_vars>>

\* filter_data on its own output, wrapped again as {"list": ...}
FilterAgain ==
    /\ pc = "filtered"
    /\ filtered.exc = "none"
    /\ refiltered' = filter_data([list |-> filtered.value])
    /\ pc' = "refiltered"
    /\ UNCHANGED <<response, filtered, result, session_vars>>

\* check_weather_forecast(city, api_key), the service answering with response
CheckWeatherForecast ==
    /\ pc \in {"start", "refiltered"}
    /\ result' = check_weather_forecast(response)
    /\ pc' = "done"
    /\ UNCHANGED <<response, filtered, refiltered, session_vars>>

Next == FilterData \/ FilterAgain \/ CheckWeatherForecast

Spec == Init /\ [][Next]_vars

-----------------------------------------------------------------------------
(* main(), src/app.py 265-631: one action per run of the script *)

\* replies of the current-weather request, lines 347-352
CurrentOk ==
    [kind |-> "json", status_code |-> 200,
     data |-> [weather |-> << [main |-> "Clear", description |-> "clear sky"] >>,
               main |-> [temp |-> 30400, feels_like |-> 31200,
                         humidity |-> 40, pressure |-> 1010],
               wind |-> [speed |-> 3000]]]
CurrentReplies ==
    { CurrentOk,
      [kind |-> "RequestException", status_code |-> 0, data |-> [cod |-> "0"]],
      [kind |-> "ValueError", status_code |-> 200, data |-> [cod |-> "0"]],
      [kind |-> "json", status_code |-> 404,
       data |-> [cod |-> "404", message |-> "city not found"]],
      \* no "weather" key
      [kind |-> "json", status_code |-> 200,
       data |-> [main |-> [temp |-> 30400], wind |-> [speed |-> 3000]]],
      \* "weather" is the empty list
      [kind |-> "json", status_code |-> 200,
       data |-> [weather |-> <<>>, main |-> [temp |-> 30400],
                 wind |-> [speed |-> 3000]]],
      \* passes the format check, but "main" has no "temp"
      [kind |-> "json", status_code |-> 200,
       data |-> [weather |-> << [main |-> "Clear", description |-> "clear sky"] >>,
                 main |-> [humidity |-> 40, pressure |-> 1010],
                 wind |-> [speed |-> 3000]]] }

\* replies of the 24-hour forecast request, lines 388-397 (Celsius)
TrendReplies ==
    { [kind |-> "json", status_code |-> 200,
       data |-> [list |-> << [main |-> [temp |-> 20400, humidity |-> 50]],
                             [main |-> [temp |-> 22000, humidity |-> 60]] >>]],
      [kind |-> "RequestException", status_code |-> 0, data |-> [cod |-> "0"]] }

\* replies of the forecast request of check_weather_forecast
SessionForecasts ==
    { OkResponse(Scenario),
      OkResponse(<<Benign>>),
      [kind |-> "RequestException", status_code |-> 0, data |-> [cod |-> "0"]] }

Crops == {"", "wheat"}
Cities == {"", "Lahore", "Multan"}
FollowUps == {"", "when to sow?"}

RECURSIVE SumTemp(_)
SumTemp(items) ==
    IF items = <<>> THEN 0 ELSE Head(items).main.temp + SumTemp(Tail(items))

\* avg_temp of lines 400-416: unavailable ("N/A") unless the request gave a
\* 200 document with a non-empty list
AvgTemp(trend) ==
    IF /\ trend.kind = "json"
       /\ trend.status_code = HTTP_OK
       /\ "list" \in DOMAIN trend.data
       /\ Prefix(trend.data.list, 8) # <<>>
    THEN LET valid_main == Prefix(trend.data.list, 8) IN
         [available |-> TRUE, val |-> Round(SumTemp(valid_main) \div Len(valid_main))]
    ELSE [available |-> FALSE, val |-> 0]

\* the state of the session as a record
Now ==
    [chat_history |-> chat_history, initial_reco_done |-> initial_reco_done,
     weather_data |-> weather_data, current_city |-> current_city,
     current_crop |-> current_crop, model_calls |-> model_calls,
     response |-> response, result |-> result, run |-> NoRun]

\* how a run ended: exit names the statement that ended it
Ended(st, r) == [st EXCEPT !.run = r]

\* the query of the initial recommendation, lines 454-483
RecoQuery(crop, city) == <<"recommend", crop, city>>

\* variant: "if not crop and not city"
MissingInput_both(crop, city) == crop = "" /\ city = ""

\* if not crop or not city, line 342
MissingInput(crop, city) == crop = "" \/ city = ""

\* the keys lines 374-381 index without a default
CurrentKeysPresent(d) ==
    /\ "main" \in DOMAIN d.weather[1] /\ "description" \in DOMAIN d.weather[1]
    /\ {"temp", "feels_like", "humidity", "pressure"} \subseteq DOMAIN d.main
    /\ "speed" \in DOMAIN d.wind

\* the branch "if get_reco:", lines 337-506
main_get_reco(weather_api_key, crop, city, current, trend, forecast, llm) ==
    LET r0 == [handler |-> "get_reco", exit |-> "none", exc |-> "none",
               shown |-> "", get_reco |-> TRUE,
               weather_api_key |-> weather_api_key, crop |-> crop, city |-> city,
               current |-> current, follow_up |-> ""]
    IN
    IF weather_api_key = ""
    THEN Ended(Now, [r0 EXCEPT !.exit = "return 340",
                     !.shown = "Please set your Weather API key in .env file."])
    ELSE IF MissingInput(crop, city)
    THEN Ended(Now, [r0 EXCEPT !.exit = "return 344",
                     !.shown = "Please fill in both crop name and city."])
    ELSE IF current.kind = "RequestException"
    THEN Ended(Now, [r0 EXCEPT !.exit = "return 355",
                     !.shown = "Weather service is unreachable. Please try again."])
    ELSE IF current.kind = "ValueError"
    THEN Ended(Now, [r0 EXCEPT !.exit = "return 358",
                     !.shown = "Weather service returned an invalid response."])
    ELSE IF current.status_code # HTTP_OK
    THEN Ended(Now, [r0 EXCEPT !.exit = "return 362",
                     !.shown = Get(current.data, "message",
                                   "Unable to fetch current weather data.")])
    ELSE IF \/ "weather" \notin DOMAIN current.data
            \/ current.data.weather = <<>>
            \/ "main" \notin DOMAIN current.data
            \/ "wind" \notin DOMAIN current.data
    THEN Ended(Now, [r0 EXCEPT !.exit = "return 371",
                     !.shown = "Unexpected current weather data format."])
    ELSE IF ~CurrentKeysPresent(current.data)
    THEN Ended(Now, [r0 EXCEPT !.exit = "raise 374-381", !.exc = "KeyError"])
    ELSE
    LET temp_celsius == Round(current.data.main.temp)
        avg_temp == AvgTemp(trend)
        \* lines 423-440
        stored == [Now EXCEPT
                     !.weather_data =
                         [is_none |-> FALSE,
                          condition |-> current.data.weather[1].main,
                          temp_c |-> temp_celsius,
                          temp_f |-> Round((temp_celsius * 9000) \div 5 + 32000),
                          forecast_avg_temp |-> avg_temp],
                     !.current_city = SomeStr(city),
                     !.current_crop = SomeStr(crop)]
        \* line 442
        forecast_result == check_weather_forecast(forecast)
        checked == [stored EXCEPT !.response = forecast, !.result = forecast_result]
    IN
    IF forecast_result.exc # "none"
    THEN Ended(checked, [r0 EXCEPT !.exit = "raise 442", !.exc = forecast_result.exc])
    ELSE
    LET error == forecast_result.value.error
        r1 == IF ~error.is_none /\ error.val # ""
              THEN [r0 EXCEPT !.shown = error.val] ELSE r0
    IN
    \* line 467: round(avg_temp) of the string "N/A"
    IF ~avg_temp.available
    THEN Ended(checked, [r1 EXCEPT !.exit = "raise 467", !.exc = "TypeError"])
    ELSE
    LET query == RecoQuery(crop, city)
        called == [checked EXCEPT !.model_calls = @ + 1]
        answer == call_conversation(conversation, query, llm)
    IN
    IF answer.exc # "none"
    THEN Ended(called, [r1 EXCEPT !.exit = "raise 484", !.exc = answer.exc])
    ELSE Ended([called EXCEPT
                  !.chat_history = Append(Append(@, <<"User", query>>),
                                          <<"Assistant", ReplyText(answer.value)>>),
                  !.initial_reco_done = TRUE],
               [r1 EXCEPT !.exit = "rerun 506"])

\* variant: the chat input is never disabled
ChatLocked_never == FALSE

\* if not st.session_state.get("initial_reco_done", False), line 594
ChatLocked == ~initial_reco_done

\* the chat column when get_reco is not pressed, lines 594-631; follow_up is
\* what the user typed, "" when nothing was submitted
main_chat(follow_up, llm) ==
    LET r0 == [handler |-> "chat", exit |-> "end of main", exc |-> "none",
               shown |-> "", get_reco |-> FALSE,
               weather_api_key |-> "", crop |-> "", city |-> "",
               current |-> NoResponse, follow_up |-> follow_up]
    IN
    IF ChatLocked
    THEN Ended(Now, [r0 EXCEPT !.shown = "Chat is locked"])
    ELSE IF follow_up = ""
    THEN Ended(Now, r0)
    ELSE
    LET asked == [Now EXCEPT !.chat_history = Append(@, <<"User", <<follow_up>> >>),
                             !.model_calls = @ + 1]
        answer == call_conversation(conversation, <<follow_up>>, llm)
    IN
    IF answer.exc # "none"
    THEN Ended(asked, [r0 EXCEPT !.exit = "raise 628", !.exc = answer.exc])
    ELSE Ended([asked EXCEPT
                  !.chat_history = Append(@, <<"Assistant", ReplyText(answer.value)>>)],
               [r0 EXCEPT !.exit = "rerun 631"])

\* the assignments of a run to the state
Becomes(st) ==
    /\ chat_history' = st.chat_history
    /\ initial_reco_done' = st.initial_reco_done
    /\ weather_data' = st.weather_data
    /\ current_city' = st.current_city
    /\ current_crop' = st.current_crop
    /\ model_calls' = st.model_calls
    /\ response' = st.response
    /\ result' = st.result
    /\ run' = st.run
    /\ UNCHANGED <<conversation, filtered, refiltered, pc>>

SessionInit ==
    /\ response = NoResponse
    /\ filtered = NotCalled
    /\ refiltered = NotCalled
    /\ result = NotCalled
    /\ pc = "session"
    /\ \E groq_api_key \in {"", "gsk"} :
           SessionStart(init_groq_conversation(groq_api_key))

\* a run with "Get Initial Recommendation" pressed; the replies of requests
\* the run does not get to make, and of the model it does not get to call,
\* are not drawn
RunGetReco ==
    /\ model_calls < MaxCalls
    /\ \E weather_api_key \in {"", "key"}, crop \in Crops, city \in Cities :
           IF weather_api_key = "" \/ MissingInput(crop, city)
           THEN Becomes(main_get_reco(weather_api_key, crop, city, NoResponse,
                                      NoResponse, NoResponse, "fails"))
           ELSE \E current \in CurrentReplies :
                    IF current # CurrentOk
                    THEN Becomes(main_get_reco(weather_api_key, crop, city, current,
                                               NoResponse, NoResponse, "fails"))
                    ELSE \E trend \in TrendReplies, forecast \in SessionForecasts,
                            llm \in LlmBehaviours :
                             Becomes(main_get_reco(weather_api_key, crop, city,
                                                   current, trend, forecast, llm))

\* a run without the button: the chat column
RunChat ==
    /\ model_calls < MaxCalls
    /\ \E follow_up \in FollowUps, llm \in LlmBehaviours :
           Becomes(main_chat(follow_up, llm))

SessionNext == RunGetReco \/ RunChat

SessionSpec == SessionInit /\ [][SessionNext]_vars

-----------------------------------------------------------------------------
(* Vocabulary of the properties *)

\* the calendar-day prefix of a timestamp: its first 10 characters
DayPrefix(ts) == Prefix(ts, 10)

\* "YYYY-MM-DD HH:MM:SS"
FeedFormat(ts) ==
    /\ Len(ts) = 19
    /\ ts[5] = "-" /\ ts[8] = "-" /\ ts[11] = " " /\ ts[14] = ":" /\ ts[17] = ":"

\* a sequence of forecast entries as the data model describes them
ForecastEntries(xs) ==
    \A i \in DOMAIN xs : "dt_txt" \in DOMAIN xs[i] /\ FeedFormat(xs[i].dt_txt)

DayKeys(xs) == {DayPrefix(xs[i].dt_txt) : i \in DOMAIN xs}

\* index of the first entry of xs that carries the day key k
FirstIndex(xs, k) ==
    CHOOSE i \in DOMAIN xs :
        /\ DayPrefix(xs[i].dt_txt) = k
        /\ \A j \in 1..(i - 1) : DayPrefix(xs[j].dt_txt) # k

RECURSIVE IsSubsequence(_, _)
IsSubsequence(a, b) ==
    IF a = <<>> THEN TRUE
    ELSE IF b = <<>> THEN FALSE
    ELSE IF Head(a) = Head(b) THEN IsSubsequence(Tail(a), Tail(b))
    ELSE IsSubsequence(a, Tail(b))

Input == response.data.list
FilterCalled == filtered.exc # "not called"
Output == filtered.value

-----------------------------------------------------------------------------
(* Properties of filter_data *)

\* C1: for every sequence of forecast entries, filter_data returns exactly
\* one entry per distinct calendar-day key of the input, that entry is the
\* first one in input order carrying the key, and the day keys of the output
\* are the day keys of the input.
C1_OnePerDayFirstKept ==
    (FilterCalled /\ ForecastEntries(Input)) =>
        /\ filtered.exc = "none"
        /\ DayKeys(Output) = DayKeys(Input)
        /\ \A i, j \in DOMAIN Output :
               DayPrefix(Output[i].dt_txt) = DayPrefix(Output[j].dt_txt) => i = j
        /\ \A j \in DOMAIN Output :
               Output[j] = Input[FirstIndex(Input, DayPrefix(Output[j].dt_txt))]

\* a later entry of a day already seen was dropped and the first one kept
C1_Witness ==
    /\ FilterCalled /\ ForecastEntries(Input)
    /\ Len(Input) = 3 /\ Len(Output) = 2
    /\ DayPrefix(Input[1].dt_txt) = DayPrefix(Input[3].dt_txt)
    /\ Input[1] # Input[3]
    /\ Output[1] = Input[1]

\* C4: the output of filter_data is a subsequence of the input, and its day
\* keys come in the order of their first occurrences in the input.
C4_OrderPreserved ==
    (FilterCalled /\ filtered.exc = "none") =>
        /\ IsSubsequence(Output, Input)
        /\ ForecastEntries(Input) =>
               \A i, j \in DOMAIN Output :
                   i < j => FirstIndex(Input, DayPrefix(Output[i].dt_txt))
                              < FirstIndex(Input, DayPrefix(Output[j].dt_txt))

\* two days interleaved: day A, day B, day A again
C4_Witness ==
    /\ FilterCalled /\ ForecastEntries(Input)
    /\ Len(Input) = 3 /\ Len(Output) = 2
    /\ DayPrefix(Input[1].dt_txt) = DayPrefix(Input[3].dt_txt)
    /\ DayPrefix(Input[1].dt_txt) # DayPrefix(Input[2].dt_txt)
    /\ Output = <<Input[1], Input[2]>>

\* C5: the output is never longer than the input; for forecast entries the
\* lengths are equal exactly when the day keys of the input are pairwise
\* distinct; the empty input gives the empty output and no error.
C5_Cardinality ==
    FilterCalled =>
        /\ filtered.exc = "none" => Len(Output) <= Len(Input)
        /\ ForecastEntries(Input) =>
               /\ filtered.exc = "none"
               /\ (Len(Output) = Len(Input)) <=>
                      (\A i, j \in DOMAIN Input :
                           DayPrefix(Input[i].dt_txt) = DayPrefix(Input[j].dt_txt)
                               => i = j)
        /\ Input = <<>> => (filtered.exc = "none" /\ Output = <<>>)

\* a strictly shorter output, from an input that repeats a day
C5_Witness ==
    /\ FilterCalled /\ ForecastEntries(Input)
    /\ Len(Input) = 3 /\ Len(Output) = 1

\* C6: filter_data applied to its own output, wrapped again as the entry
\* list, returns that same sequence.
C6_Idempotent ==
    refiltered.exc # "not called" =>
        /\ refiltered.exc = "none"
        /\ refiltered.value = filtered.value

\* the second application ran on an output of two days that came from a
\* longer input
C6_Witness ==
    /\ refiltered.exc = "none"
    /\ Len(Input) = 3 /\ Len(Output) = 2
    /\ refiltered.value = Output

-----------------------------------------------------------------------------
(* Properties of check_weather_forecast *)

\* the call returned a list of worst days
Classified ==
    /\ result.exc = "none"
    /\ ~result.value.worst_days.is_none
WorstDays == result.value.worst_days.val
WorstSet == {WorstDays[i] : i \in DOMAIN WorstDays}

\* the normalized days the classifier visits
Normalized == filter_data(response.data).value
Stamps(days) == [i \in DOMAIN days |-> days[i].dt_txt]

\* the three-hour rain of an entry, 0 when the entry carries none
Rain3h(day) ==
    IF "rain" \in DOMAIN day /\ "3h" \in DOMAIN day.rain THEN day.rain["3h"] ELSE 0
HeavyRain(day) == Rain3h(day) >= 1600
StrongWind(day) == day.wind.speed >= 20000
ExtremeHeat(day) == day.main.temp - 273150 >= 35000
ExtremeCold(day) == day.main.temp - 273150 <= 0

\* C2: a normalized day's full dt_txt is in worst_days if and only if at
\* least one of rain >= 1.6, wind >= 20, temp_c >= 35, temp_c <= 0 holds,
\* with temp_c the Kelvin temperature minus 273.15; the comparisons are
\* inclusive and one condition alone is enough.
C2_FlaggedIffAnyCondition ==
    Classified =>
        \A i \in DOMAIN Normalized :
            (Normalized[i].dt_txt \in WorstSet) <=>
                \/ HeavyRain(Normalized[i])
                \/ StrongWind(Normalized[i])
                \/ ExtremeHeat(Normalized[i])
                \/ ExtremeCold(Normalized[i])

\* a day at a boundary, flagged by that one condition alone, next to a day
\* just inside the boundary, not flagged
C2_Witness ==
    /\ Classified
    /\ Len(Normalized) = 2
    /\ WorstDays = <<Normalized[1].dt_txt>>
    /\ \/ /\ Rain3h(Normalized[1]) = 1600 /\ Rain3h(Normalized[2]) = 1599
          /\ ~StrongWind(Normalized[1]) /\ ~ExtremeHeat(Normalized[1])
          /\ ~ExtremeCold(Normalized[1])
       \/ /\ Normalized[1].main.temp = 308150 /\ Normalized[2].main.temp = 308149
          /\ ~StrongWind(Normalized[1]) /\ ~HeavyRain(Normalized[1])
       \/ /\ Normalized[1].main.temp = 273150 /\ Normalized[2].main.temp = 273151
          /\ ~StrongWind(Normalized[1]) /\ ~HeavyRain(Normalized[1])

\* C3: on the three-entry Kelvin scenario, normalization keeps the two
\* 00:00:00 entries and classification returns exactly
\* ["2024-06-01 00:00:00", "2024-06-02 00:00:00"], the first flagged by heat
\* alone (35.0 C) and the second by wind alone (25 >= 20).
C3_EndToEnd ==
    HasList(response) /\ Input = Scenario =>
        /\ FilterCalled => filtered = Return(<<Scenario[1], Scenario[3]>>)
        /\ result.exc # "not called" =>
               /\ Classified
               /\ result.value.error.is_none
               /\ WorstDays = <<DAY1 \o T0000, DAY2 \o T0000>>
               /\ ExtremeHeat(Scenario[1]) /\ Scenario[1].main.temp - 273150 = 35000
               /\ ~StrongWind(Scenario[1]) /\ ~HeavyRain(Scenario[1])
               /\ StrongWind(Scenario[3]) /\ Scenario[3].main.temp - 273150 = 27000
               /\ ~HeavyRain(Scenario[3])

\* the scenario was normalized and then classified
C3_Witness ==
    /\ HasList(response) /\ Input = Scenario
    /\ FilterCalled
    /\ Classified
    /\ Len(WorstDays) = 2

-----------------------------------------------------------------------------
(* Properties of the day key *)

\* the entry has no timestamp, or one shorter than the calendar-day prefix
Malformed(entry) == "dt_txt" \notin DOMAIN entry \/ Len(entry.dt_txt) < 10

\* C7: when an entry's timestamp is missing or shorter than the 10-character
\* calendar-day prefix, normalization fails with an error that aborts the
\* whole call (MalformedEntry; the KeyError Python raises for a missing key
\* is accepted as that error): it returns no result, partial or not, built
\* on a truncated or empty day key.
C7_MalformedEntryFailsFast ==
    /\ (FilterCalled /\ \E i \in DOMAIN Input : Malformed(Input[i]))
           => filtered.exc \in {"MalformedEntry", "KeyError"}
    /\ (/\ result.exc # "not called" /\ HasList(response)
        /\ \E i \in DOMAIN Input : Malformed(Input[i]))
           => result.exc \in {"MalformedEntry", "KeyError"}

\* every entry of the input has a timestamp of at least 10 characters
LongEnough(xs) ==
    \A i \in DOMAIN xs : "dt_txt" \in DOMAIN xs[i] /\ Len(xs[i].dt_txt) >= 10

\* C8: for entries whose timestamps have at least 10 characters, whatever
\* their length, the day key is the first 10 characters: entries are merged
\* if and only if their first 10 characters are equal, so the output holds
\* exactly one entry for each 10-character prefix of the input.
C8_DayKeyIsFirstTen ==
    (FilterCalled /\ LongEnough(Input)) =>
        /\ filtered.exc = "none"
        /\ DayKeys(Output) = DayKeys(Input)
        /\ \A i, j \in DOMAIN Output :
               DayPrefix(Output[i].dt_txt) = DayPrefix(Output[j].dt_txt) => i = j

-----------------------------------------------------------------------------
(* Failures of the weather service *)

\* the forecast document is malformed: an entry lacks a key the code indexes
MalformedDocument(resp) ==
    /\ HasList(resp)
    /\ \E i \in DOMAIN resp.data.list :
           \/ "dt_txt" \notin DOMAIN resp.data.list[i]
           \/ "wind" \notin DOMAIN resp.data.list[i]
           \/ "main" \notin DOMAIN resp.data.list[i]

\* the weather service failed: unreachable, body not JSON, status not 200,
\* no forecast list, or a malformed forecast document
ServiceFailed(resp) ==
    \/ resp.kind # "json"
    \/ resp.status_code # 200
    \/ ~HasList(resp)
    \/ MalformedDocument(resp)

\* C11: every failure of the weather service is turned into a message and
\* never propagates as a raw exception: check_weather_forecast then returns
\* (None, message) with a non-empty message, and in every outcome exactly
\* one of its two results is None.
C11_FailuresBecomeMessages ==
    result.exc # "not called" =>
        /\ result.exc = "none"
        /\ result.value.worst_days.is_none # result.value.error.is_none
        /\ ServiceFailed(response) =>
               /\ result.value.worst_days.is_none
               /\ ~result.value.error.is_none
               /\ result.value.error.val # ""

-----------------------------------------------------------------------------
(* Properties of the session *)

\* the step is a run that entered call_conversation
ModelCalled == model_calls' # model_calls

\* C12: with the Groq API key missing (conversation is None), a request for
\* the initial recommendation that gets to the model ends in a message shown
\* to the user and not in a raw exception, and leaves chat_history and
\* initial_reco_done unchanged.
C12_MissingGroqKeyEndsInMessage ==
    [][ (conversation = "None" /\ run'.handler = "get_reco" /\ ModelCalled)
            => /\ run'.exc = "none"
               /\ run'.shown # ""
               /\ chat_history' = chat_history
               /\ initial_reco_done' = initial_reco_done ]_vars

\* the step is a run that took a follow-up question: it appended to
\* chat_history or called the model from the chat column
FollowUpAccepted ==
    /\ run'.handler = "chat"
    /\ (chat_history' # chat_history \/ ModelCalled)

\* the step appended the User and Assistant entries of the initial
\* recommendation
RecoAppended ==
    /\ run'.handler = "get_reco"
    /\ chat_history' =
           chat_history \o << <<"User", RecoQuery(run'.crop, run'.city)>>,
                              <<"Assistant", Reply(RecoQuery(run'.crop, run'.city))>> >>

\* C13: a follow-up question is accepted only in a state where
\* initial_reco_done is true; initial_reco_done starts false, becomes true
\* only in a run that appended the initial recommendation's User and
\* Assistant entries, and once true stays true.
C13_ChatUnlockedByReco ==
    /\ ~initial_reco_done
    /\ [][ /\ FollowUpAccepted => initial_reco_done
           /\ (~initial_reco_done /\ initial_reco_done') => RecoAppended
           /\ initial_reco_done => initial_reco_done' ]_vars

\* a follow-up was answered after the initial recommendation
C13_Witness ==
    /\ run.handler = "chat" /\ run.follow_up # "" /\ run.exit = "rerun 631"
    /\ initial_reco_done
    /\ Len(chat_history) = 4
    /\ chat_history[3] = <<"User", <<run.follow_up>> >>

\* the current-weather request of the run failed: unreachable, not JSON,
\* status not 200, or not of the expected format
CurrentFailed(c) ==
    \/ c.kind # "json"
    \/ c.status_code # 200
    \/ "weather" \notin DOMAIN c.data
    \/ c.data.weather = <<>>
    \/ "main" \notin DOMAIN c.data
    \/ "wind" \notin DOMAIN c.data

\* the run was a press of the button with the weather API key missing, the
\* crop or the city empty, or a failed current-weather request
RecoRefused(r) ==
    /\ r.get_reco
    /\ \/ r.weather_api_key = ""
       \/ r.crop = ""
       \/ r.city = ""
       \/ CurrentFailed(r.current)

\* C14: a press of "Get Initial Recommendation" with the weather API key
\* missing, the crop or the city empty, or a failed current-weather request
\* leaves weather_data, current_city, current_crop, chat_history and
\* initial_reco_done as they were and does not call the model.
C14_RefusedRunChangesNothing ==
    [][ RecoRefused(run') =>
            /\ UNCHANGED <<weather_data, current_city, current_crop,
                           chat_history, initial_reco_done>>
            /\ ~ModelCalled ]_vars

\* after a recommendation for one city, a press for another city whose
\* current-weather document is malformed left the session as it was
C14_Witness ==
    /\ RecoRefused(run)
    /\ run.weather_api_key # "" /\ run.crop # "" /\ run.city # ""
    /\ run.current.kind = "json" /\ run.current.status_code = 200
    /\ initial_reco_done /\ chat_history # <<>>
    /\ ~weather_data.is_none
    /\ current_city.val # run.city

\* C15: in every reachable session state chat_history has even length and
\* alternates User, Assistant, User, Assistant, ..., every User entry being
\* followed by the Assistant reply to it.
C15_AlternatingLog ==
    /\ Len(chat_history) % 2 = 0
    /\ \A i \in DOMAIN chat_history :
           IF i % 2 = 1
           THEN /\ chat_history[i][1] = "User"
                /\ i + 1 \in DOMAIN chat_history
                /\ chat_history[i + 1] = <<"Assistant", Reply(chat_history[i][2])>>
           ELSE chat_history[i][1] = "Assistant"

\* chat_history only grows: no entry is removed or reordered
AppendOnly ==
    [][ /\ Len(chat_history') >= Len(chat_history)
        /\ SubSeq(chat_history', 1, Len(chat_history)) = chat_history ]_vars

====
